---- MODULE Spec2Model ----
(***************************************************************************)
(* A model of the three mdBook helper scripts of the repository:           *)
(*   scripts/generate_summary.py   (extract_title, is_excluded,            *)
(*                                  generate_summary, main)                *)
(*   scripts/organize_pdf.py       (organize_pdf)                          *)
(*   scripts/create_new_chapter.py (create_chapter)                        *)
(*                                                                         *)
(* The scripts only act on a file system, so the state is a file system:   *)
(* the set of directories, the files with their content, the paths whose   *)
(* permission bits deny access, the clock's date, and a record of the      *)
(* last call.  Python strings are TLA+ strings; a text file is the         *)
(* sequence of its lines.                                                  *)
(***************************************************************************)
EXTENDS Integers, Sequences, FiniteSets, TLC

VARIABLES dirs, files, denied, today, calls, last

vars == <<dirs, files, denied, today, calls, last>>

(***************************************************************************)
(* Strings                                                                 *)
(***************************************************************************)

At(s, i) == SubSeq(s, i, i)

\* The printable ASCII characters in code order, from code 32 (the double
\* quote, code 34, and the grave accent, code 96, are left out: no name of the
\* model holds them).
Ascii == " !#$%&'()*+,-./0123456789:;<=>?@ABCDEFGHIJKLMNOPQRSTUVWXYZ[\\]^_abcdefghijklmnopqrstuvwxyz{|}~"

AsciiCode(i) == IF i <= 2 THEN 31 + i ELSE IF i <= 63 THEN 32 + i ELSE 33 + i

Chars == {At(Ascii, i) : i \in 1..Len(Ascii)}

OrdTable == [c \in Chars |-> AsciiCode(CHOOSE i \in 1..Len(Ascii) : At(Ascii, i) = c)]

\* ord(c)
Ord(c) == OrdTable[c]

LowerLetters == "abcdefghijklmnopqrstuvwxyz"

UpperLetters == "ABCDEFGHIJKLMNOPQRSTUVWXYZ"

IsLowerChar(c) == Ord(c) >= 97 /\ Ord(c) <= 122

IsUpperChar(c) == Ord(c) >= 65 /\ Ord(c) <= 90

IsCased(c) == IsLowerChar(c) \/ IsUpperChar(c)

IsDigit(c) == Ord(c) >= 48 /\ Ord(c) <= 57

LowerChar(c) == IF IsUpperChar(c) THEN At(LowerLetters, Ord(c) - 64) ELSE c

UpperChar(c) == IF IsLowerChar(c) THEN At(UpperLetters, Ord(c) - 96) ELSE c

StartsWith(s, p) == Len(p) <= Len(s) /\ SubSeq(s, 1, Len(p)) = p

EndsWith(s, p) == Len(p) <= Len(s) /\ SubSeq(s, Len(s) - Len(p) + 1, Len(s)) = p

DropFirst(s, n) == SubSeq(s, n + 1, Len(s))

\* s.find(c) + 1: the first position of character c in s, 0 when there is none
RECURSIVE FindFrom(_, _, _)
FindFrom(s, c, i) ==
    IF i > Len(s) THEN 0
    ELSE IF At(s, i) = c THEN i
    ELSE FindFrom(s, c, i + 1)

\* s.rfind(c) + 1
RECURSIVE RFindFrom(_, _, _)
RFindFrom(s, c, i) ==
    IF i < 1 THEN 0
    ELSE IF At(s, i) = c THEN i
    ELSE RFindFrom(s, c, i - 1)

\* s.replace(a, b) for single characters a and b
RECURSIVE StrReplace(_, _, _)
StrReplace(s, a, b) ==
    IF s = "" THEN ""
    ELSE (IF Head(s) = a THEN b ELSE Head(s)) \o StrReplace(Tail(s), a, b)

\* s.lower()
RECURSIVE StrLower(_)
StrLower(s) == IF s = "" THEN "" ELSE LowerChar(Head(s)) \o StrLower(Tail(s))

\* s.title(): a cased character is upper-cased when the character before it is
\* uncased (or there is none) and lower-cased otherwise
RECURSIVE TitleFrom(_, _)
TitleFrom(s, prevCased) ==
    IF s = "" THEN ""
    ELSE LET c == Head(s)
         IN (IF prevCased THEN LowerChar(c) ELSE UpperChar(c))
                \o TitleFrom(Tail(s), IsCased(c))

StrTitle(s) == TitleFrom(s, FALSE)

\* a < b for str: by code point, a proper prefix first
RECURSIVE StrLess(_, _)
StrLess(a, b) ==
    IF b = "" THEN FALSE
    ELSE IF a = "" THEN TRUE
    ELSE IF Head(a) = Head(b) THEN StrLess(Tail(a), Tail(b))
    ELSE Ord(Head(a)) < Ord(Head(b))

\* the list left as a directory listing may return it, unsorted: here in
\* descending order
RECURSIVE ListingOrder(_)
ListingOrder(S) ==
    IF S = {} THEN <<>>
    ELSE LET m == CHOOSE x \in S : \A y \in S \ {x} : StrLess(y, x)
         IN <<m>> \o ListingOrder(S \ {m})

\* sorted(S) for a set of strings
RECURSIVE Sorted(_)
Sorted(S) ==
    IF S = {} THEN <<>>
    ELSE LET m == CHOOSE x \in S : \A y \in S \ {x} : StrLess(x, y)
         IN <<m>> \o Sorted(S \ {m})

(***************************************************************************)
(* Paths (pathlib, os.path)                                                *)
(***************************************************************************)

\* path / name
Join(d, name) == IF d = "/" THEN "/" \o name ELSE d \o "/" \o name

\* os.path.basename(p), Path(p).name
Basename(p) == DropFirst(p, RFindFrom(p, "/", Len(p)))

\* Path(p).parent
Parent(p) ==
    LET i == RFindFrom(p, "/", Len(p))
    IN IF i <= 1 THEN "/" ELSE SubSeq(p, 1, i - 1)

\* os.path.splitext(name)[0], Path(p).stem: the name up to its last dot, a
\* leading dot never starting an extension
RECURSIVE LeadingDots(_)
LeadingDots(s) == IF s # "" /\ Head(s) = "." THEN 1 + LeadingDots(Tail(s)) ELSE 0

Stem(name) ==
    LET i == RFindFrom(name, ".", Len(name))
    IN IF i > LeadingDots(name) + 1
       THEN SubSeq(name, 1, i - 1) ELSE name

\* p.relative_to(root), for p under root
RelativeTo(p, root) == DropFirst(p, Len(root) + 1)

(***************************************************************************)
(* re.search, for the patterns the scripts are given: a backslash makes    *)
(* the next character literal, a dot matches any character, a final dollar *)
(* matches at the end of the string, any other character matches itself.   *)
(***************************************************************************)

RECURSIVE ReMatchHere(_, _)
ReMatchHere(pat, s) ==
    IF pat = "" THEN TRUE
    ELSE IF pat = "$" THEN s = ""
    ELSE IF s = "" THEN FALSE
    ELSE IF Head(pat) = "\\" /\ Len(pat) >= 2
         THEN Head(s) = At(pat, 2) /\ ReMatchHere(DropFirst(pat, 2), Tail(s))
    ELSE IF Head(pat) = "."
         THEN ReMatchHere(Tail(pat), Tail(s))
    ELSE Head(s) = Head(pat) /\ ReMatchHere(Tail(pat), Tail(s))

ReSearch(pat, s) == \E i \in 0..Len(s) : ReMatchHere(pat, DropFirst(s, i))

(***************************************************************************)
(* fnmatch, as pathlib's glob applies it to one name: * matches any run of *)
(* characters, ? any one character, [seq] one character of seq (a-b is a   *)
(* range, a leading ! negates), a [ without a closing ] is literal.        *)
(***************************************************************************)

\* the position of the ] closing the class opened at pat[1], 0 when none: a ]
\* right after the [ (or after [!) is a member of the class
ClassEnd(pat) ==
    LET j0 == IF Len(pat) >= 2 /\ At(pat, 2) = "!" THEN 3 ELSE 2
        j1 == IF Len(pat) >= j0 /\ At(pat, j0) = "]" THEN j0 + 1 ELSE j0
    IN FindFrom(pat, "]", j1)

RECURSIVE InClass(_, _)
InClass(c, body) ==
    IF body = "" THEN FALSE
    ELSE IF Len(body) >= 3 /\ At(body, 2) = "-"
         THEN (Ord(Head(body)) <= Ord(c) /\ Ord(c) <= Ord(At(body, 3)))
              \/ InClass(c, DropFirst(body, 3))
    ELSE Head(body) = c \/ InClass(c, Tail(body))

RECURSIVE GlobMatch(_, _)
GlobMatch(pat, name) ==
    IF pat = "" THEN name = ""
    ELSE IF Head(pat) = "*"
         THEN \E i \in 0..Len(name) : GlobMatch(Tail(pat), DropFirst(name, i))
    ELSE IF name = "" THEN FALSE
    ELSE IF Head(pat) = "?" THEN GlobMatch(Tail(pat), Tail(name))
    ELSE IF Head(pat) = "[" /\ ClassEnd(pat) > 0
         THEN LET e == ClassEnd(pat)
                  neg == At(pat, 2) = "!"
                  body == SubSeq(pat, IF neg THEN 3 ELSE 2, e - 1)
              IN (InClass(Head(name), body) # neg)
                 /\ GlobMatch(DropFirst(pat, e), Tail(name))
    ELSE Head(pat) = Head(name) /\ GlobMatch(Tail(pat), Tail(name))

(***************************************************************************)
(* The file system                                                         *)
(***************************************************************************)

NoCall == [op |-> "none"]

NoDate == [year |-> 0, month |-> 0, day |-> 0]

Exists(p) == p \in dirs \/ p \in DOMAIN files

IsDir(p) == p \in dirs

\* the entries of directory d
Children(d) == {p \in (dirs \cup DOMAIN files) \ {"/"} : Parent(p) = d}

\* os.stat(p) raises PermissionError: the directory holding p denies search
StatRaises(p) == Parent(p) \in dirs /\ Parent(p) \in denied

\* os.scandir(d) raises PermissionError: d denies reading
ListRaises(d) == d \in dirs /\ d \in denied

\* d.glob(pattern): empty when d is no directory
Glob(d, pattern) ==
    IF ~IsDir(d) THEN {}
    ELSE {p \in Children(d) : GlobMatch(pattern, Basename(p))}

\* open(p, 'r').read() raises: no such file, a directory, no read permission,
\* or bytes that are not UTF-8
ReadRaises(p) == p \notin DOMAIN files \/ p \in denied

\* open(p, 'w') raises: no directory to hold p, p is a directory, or the
\* permission bits of p or of its directory deny writing
WriteRaises(p) ==
    \/ Parent(p) \notin dirs
    \/ p \in dirs
    \/ p \in denied
    \/ Parent(p) \in denied

(***************************************************************************)
(* generate_summary.py                                                     *)
(***************************************************************************)

\* os.path.splitext(os.path.basename(file_path))[0].replace('-', ' ').title()
DerivedTitle(file_path) ==
    StrTitle(StrReplace(Stem(Basename(file_path)), "-", " "))

\* re.search(r'^# (.+)$', content, re.MULTILINE) matches in this line
IsHeading(line) == StartsWith(line, "# ") /\ Len(line) >= 3

\* match.group(1)
HeadingText(line) == DropFirst(line, 2)

extract_title(file_path) ==
    IF ReadRaises(file_path) THEN DerivedTitle(file_path)
    ELSE LET content == files[file_path]
             hs == {i \in 1..Len(content) : IsHeading(content[i])}
         IN IF hs # {}
            THEN HeadingText(content[CHOOSE i \in hs : \A j \in hs : i <= j])
            ELSE DerivedTitle(file_path)

is_excluded(path, exclude_patterns) ==
    \E k \in 1..Len(exclude_patterns) : ReSearch(exclude_patterns[k], path)

\* the default of --exclude and of generate_summary's exclude
DefaultExclude == <<"/\\.", "/_", "node_modules", "book$", "SUMMARY\\.md$">>

\* f"* [{title}]({path})\n" and f"  * [{title}]({path})\n", without the newline
LinkLine(depth, title, path) ==
    (IF depth = 0 THEN "* [" ELSE "  * [") \o title \o "](" \o path \o ")"

\* the lines of the section files fs, a sequence, in its order
RECURSIVE SectionLines(_, _)
SectionLines(book_root, fs) ==
    IF fs = <<>> THEN <<>>
    ELSE <<LinkLine(1, extract_title(Head(fs)), RelativeTo(Head(fs), book_root))>>
             \o SectionLines(book_root, Tail(fs))

\* sorted([d for d in chapters_dir.iterdir() if d.is_dir() and not is_excluded(d, exclude)])
ChapterDirs(chapters_dir, exclude) ==
    Sorted({d \in Children(chapters_dir) : IsDir(d) /\ ~is_excluded(d, exclude)})

\* the body of the loop over chapter_dirs, for one chapter_dir
ChapterLines(book_root, chapter_dir, exclude) ==
    LET chapter_readme == Join(chapter_dir, "README.md")
        md == {f \in Glob(chapter_dir, "*.md") : ~is_excluded(f, exclude)}
    IN IF Exists(chapter_readme)
       THEN <<LinkLine(0, extract_title(chapter_readme),
                       RelativeTo(chapter_readme, book_root))>>
            \o SectionLines(book_root,
                   Sorted({f \in md : Basename(f) # "README.md"}))
       ELSE IF md # {}
            THEN <<"* [" \o StrTitle(StrReplace(Basename(chapter_dir), "-", " ")) \o "]">>
                 \o SectionLines(book_root, Sorted(md))
            ELSE <<>>

RECURSIVE AllChapterLines(_, _, _)
AllChapterLines(book_root, chapter_dirs, exclude) ==
    IF chapter_dirs = <<>> THEN <<>>
    ELSE ChapterLines(book_root, Head(chapter_dirs), exclude)
             \o AllChapterLines(book_root, Tail(chapter_dirs), exclude)

\* the else branch: the markdown files of the book root
FallbackFiles(book_root, exclude) ==
    Sorted({f \in Glob(book_root, "*.md") :
               /\ Basename(f) # "README.md"
               /\ Basename(f) # "SUMMARY.md"
               /\ ~is_excluded(f, exclude)})

RECURSIVE FallbackLines(_, _)
FallbackLines(book_root, fs) ==
    IF fs = <<>> THEN <<>>
    ELSE <<LinkLine(0, extract_title(Head(fs)), RelativeTo(Head(fs), book_root))>>
             \o FallbackLines(book_root, Tail(fs))

\* the list content, built from the tree: one string per line ("# Summary\n\n"
\* is the title line and an empty line)
SummaryContent(book_root, exclude) ==
    LET chapters_dir == Join(book_root, "chapters")
        readme_path == Join(book_root, "README.md")
    IN <<"# Summary", "">>
       \o (IF Exists(readme_path)
           THEN <<LinkLine(0, extract_title(readme_path), "README.md")>>
           ELSE <<>>)
       \o (IF Exists(chapters_dir) /\ IsDir(chapters_dir)
           THEN AllChapterLines(book_root, ChapterDirs(chapters_dir, exclude), exclude)
           ELSE FallbackLines(book_root, FallbackFiles(book_root, exclude)))

\* an exception leaves the scan: nothing in generate_summary catches the
\* PermissionError of chapters_dir.iterdir(), of d.is_dir() or of
\* chapter_readme.exists()
ScanRaises(book_root, exclude) ==
    LET chapters_dir == Join(book_root, "chapters")
    IN /\ Exists(chapters_dir) /\ IsDir(chapters_dir)
       /\ \/ ListRaises(chapters_dir)
          \/ \E d \in Children(chapters_dir) :
                /\ IsDir(d) /\ ~is_excluded(d, exclude)
                /\ StatRaises(Join(d, "README.md"))

\* main: output_file = book_root / args.output
OutputFile(book_root, output) ==
    IF StartsWith(output, "/") THEN output ELSE Join(book_root, output)

\* what the run before this one was, when it was a run of generate_summary
Prior ==
    IF last.op = "generate_summary"
    THEN [op |-> last.op, book_root |-> last.book_root, output_file |-> last.output_file,
          exclude |-> last.exclude, outcome |-> last.outcome,
          content |-> last.content]
    ELSE NoCall

\* one run of the script: main, then generate_summary
GenerateSummary(book_root, output, exclude) ==
    LET output_file == OutputFile(book_root, output)
        content == SummaryContent(book_root, exclude)
        raised == ScanRaises(book_root, exclude) \/ WriteRaises(output_file)
    IN /\ files' = IF raised THEN files ELSE (output_file :> content) @@ files
       /\ last' = [op |-> "generate_summary", book_root |-> book_root,
                   output_file |-> output_file, exclude |-> exclude,
                   outcome |-> IF raised THEN "error" ELSE "ok",
                   content |-> IF raised THEN <<>> ELSE content,
                   before |-> files, prior |-> Prior]
       /\ UNCHANGED <<dirs, denied, today, calls>>

(***************************************************************************)
(* The book trees generate_summary is run on                               *)
(***************************************************************************)

MaxFiles == 3

MaxDenied == 1

BookRoot == "/w"

BookDirs == {"/w", "/w/chapters", "/w/chapters/02-setup", "/w/chapters/10-appendix"}

BookFiles ==
    {"/w/README.md", "/w/a.md", "/w/TOC.md"}
    \cup {Join(d, n) : d \in {"/w/chapters/02-setup", "/w/chapters/10-appendix"},
                       n \in {"README.md", "a.md", "b.md"}}

\* what the markdown file p holds when it is written: an introduction with a
\* heading, a section with a heading, a section without one
ContentOf(p) ==
    IF Basename(p) = "README.md" THEN <<"# Welcome", "", "text">>
    ELSE IF Basename(p) = "a.md" THEN <<"text", "## Details">>
    ELSE <<"", "# Notes", "# More">>

Outputs == {"SUMMARY.md", "TOC.md", "/o/toc.md"}

Excludes == {DefaultExclude, <<"README", "b\\.md$">>}

\* the paths whose permission bits may deny access
Deniable ==
    {"/w/chapters", "/w/chapters/02-setup", "/w/chapters/02-setup/a.md", "/w/TOC.md"}

MakeDir(d) ==
    /\ last.op = "none"
    /\ ~Exists(d)
    /\ Parent(d) \in dirs
    /\ dirs' = dirs \cup {d}
    /\ UNCHANGED <<files, denied, today, calls, last>>

WriteFile(p) ==
    /\ last.op = "none"
    /\ ~Exists(p)
    /\ Parent(p) \in dirs
    /\ Cardinality(DOMAIN files) < MaxFiles
    /\ files' = (p :> ContentOf(p)) @@ files
    /\ UNCHANGED <<dirs, denied, today, calls, last>>

\* chmod 000 p
Deny(p) ==
    /\ last.op = "none"
    /\ Exists(p)
    /\ p \notin denied
    /\ Cardinality(denied) < MaxDenied
    /\ denied' = denied \cup {p}
    /\ UNCHANGED <<dirs, files, today, calls, last>>

RunSummary ==
    \E output \in Outputs, exclude \in Excludes :
        /\ last.op # "none" => /\ last.output_file = OutputFile(BookRoot, output)
                               /\ last.exclude = exclude
        /\ GenerateSummary(BookRoot, output, exclude)

SummaryInit ==
    /\ dirs = {"/", "/o"}
    /\ files = <<>>
    /\ denied = {}
    /\ today = NoDate
    /\ calls = 0
    /\ last = NoCall

SummaryNext ==
    \/ \E d \in BookDirs : MakeDir(d)
    \/ \E p \in BookFiles : WriteFile(p)
    \/ \E p \in Deniable : Deny(p)
    \/ RunSummary

SpecSummary == SummaryInit /\ [][SummaryNext]_vars

(***************************************************************************)
(* The markdown files extract_title is called on                           *)
(***************************************************************************)

MaxLineLen == 4

MaxLines == 2

TitleAlphabet == {"#", " ", "t"}

TitleFiles == {"/w/my_notes.md", "/w/02-setUp.md"}

RECURSIVE StringsUpTo(_)
StringsUpTo(n) ==
    IF n = 0 THEN {""}
    ELSE LET P == StringsUpTo(n - 1)
         IN P \cup {s \o c : s \in P, c \in TitleAlphabet}

RECURSIVE TextsUpTo(_)
TextsUpTo(n) ==
    IF n = 0 THEN {<<>>}
    ELSE LET P == TextsUpTo(n - 1)
         IN P \cup {Append(t, l) : t \in P, l \in StringsUpTo(MaxLineLen)}

\* one call of extract_title
ExtractTitle(file_path) ==
    /\ last' = [op |-> "extract_title", file_path |-> file_path,
                result |-> extract_title(file_path)]
    /\ UNCHANGED <<dirs, files, denied, today, calls>>

TitleInit ==
    /\ dirs = {"/", "/w"}
    /\ \E p \in TitleFiles, t \in TextsUpTo(MaxLines) : files = (p :> t)
    /\ \E d \in SUBSET (DOMAIN files) : denied = d
    /\ today = NoDate
    /\ calls = 0
    /\ last = NoCall

TitleNext == \E p \in DOMAIN files : ExtractTitle(p)

SpecTitle == TitleInit /\ [][TitleNext]_vars

(***************************************************************************)
(* Numbers as text                                                         *)
(***************************************************************************)

Digits == "0123456789"

\* str(n)
RECURSIVE NatStr(_)
NatStr(n) ==
    IF n < 10 THEN At(Digits, n + 1)
    ELSE NatStr(n \div 10) \o At(Digits, (n % 10) + 1)

IntStr(n) == IF n < 0 THEN "-" \o NatStr(0 - n) ELSE NatStr(n)

\* f"{n:02d}": the sign counts in the width
Format02d(n) == IF Len(IntStr(n)) < 2 THEN "0" \o IntStr(n) ELSE IntStr(n)

AllDigits(s) == s # "" /\ \A i \in 1..Len(s) : IsDigit(At(s, i))

\* int(s) for a string of decimal digits
RECURSIVE DigitsValue(_)
DigitsValue(s) ==
    IF s = "" THEN 0
    ELSE 10 * DigitsValue(SubSeq(s, 1, Len(s) - 1)) + (Ord(At(s, Len(s))) - 48)

\* s.split('-')[0]
BeforeDash(s) ==
    LET i == FindFrom(s, "-", 1)
    IN IF i = 0 THEN s ELSE SubSeq(s, 1, i - 1)

(***************************************************************************)
(* organize_pdf.py                                                         *)
(***************************************************************************)

\* current_date.strftime("%Y-%m-%d")
DateStr(d) == NatStr(d.year) \o "-" \o Format02d(d.month) \o "-" \o Format02d(d.day)

\* month_dir = output_dir / str(year) / f"{month:02d}"
MonthDir(output_dir, d) == Join(Join(output_dir, NatStr(d.year)), Format02d(d.month))

\* existing_files = list(month_dir.glob(f"{book_title}_{date_str}*.pdf"))
ExistingFiles(month_dir, book_title, date_str) ==
    Glob(month_dir, book_title \o "_" \o date_str \o "*.pdf")

\* version = f"_v{len(existing_files) + 1}" when add_version, "" otherwise
Version(month_dir, book_title, date_str, add_version) ==
    IF add_version
    THEN "_v" \o NatStr(Cardinality(ExistingFiles(month_dir, book_title, date_str)) + 1)
    ELSE ""

MaxCopies == 3

organize_pdf(pdf_path, output_dir, add_version) ==
    LET year_dir == Join(output_dir, NatStr(today.year))
        month_dir == MonthDir(output_dir, today)
        book_title == Stem(Basename(pdf_path))
        date_str == DateStr(today)
        new_filename == book_title \o "_" \o date_str
                          \o Version(month_dir, book_title, date_str, add_version)
                          \o ".pdf"
        new_path == Join(month_dir, new_filename)
    IN /\ calls < MaxCopies
       /\ pdf_path \in DOMAIN files
       /\ dirs' = dirs \cup {output_dir, year_dir, month_dir}
       /\ files' = (new_path :> files[pdf_path]) @@ files
       /\ last' = [op |-> "organize_pdf", pdf_path |-> pdf_path,
                   add_version |-> add_version, new_path |-> new_path,
                   existed |-> new_path \in DOMAIN files]
       /\ calls' = calls + 1
       /\ UNCHANGED <<denied, today>>

Pdfs == {"/pdf/book.pdf", "/pdf/book[1].pdf"}

\* the dates datetime.now() returns, in the order of time
Dates ==
    <<[year |-> 2026, month |-> 11, day |-> 5],
      [year |-> 2026, month |-> 11, day |-> 6],
      [year |-> 2026, month |-> 12, day |-> 1]>>

\* the clock passes midnight
NextDay ==
    /\ \E i \in 1..(Len(Dates) - 1) : today = Dates[i] /\ today' = Dates[i + 1]
    /\ UNCHANGED <<dirs, files, denied, calls, last>>

PdfInit ==
    /\ dirs = {"/", "/pdf"}
    /\ files = [p \in Pdfs |-> <<"%PDF " \o Basename(p)>>]
    /\ denied = {}
    /\ today = Dates[1]
    /\ calls = 0
    /\ last = NoCall

PdfNext ==
    \/ \E p \in Pdfs, v \in BOOLEAN : organize_pdf(p, "/pub", v)
    \/ NextDay

SpecPdf == PdfInit /\ [][PdfNext]_vars

(***************************************************************************)
(* create_new_chapter.py                                                   *)
(***************************************************************************)

\* the numbers of the existing chapter directories: int(name.split('-')[0])
\* where that is a number (int raises ValueError on anything but digits here)
ChapterNumbers(chapters_dir) ==
    {DigitsValue(BeforeDash(Basename(d))) :
        d \in {c \in Children(chapters_dir) :
                  IsDir(c) /\ AllDigits(BeforeDash(Basename(c)))}}

Max(S) == CHOOSE x \in S : \A y \in S : y <= x

\* the number counted from the directories instead of taken from their names
CountPlusOne(chapters_dir) ==
    Cardinality({c \in Children(chapters_dir) : IsDir(c)}) + 1

\* chapter_number when none is given
NextChapterNumber(chapters_dir) ==
    LET numbers == ChapterNumbers(chapters_dir)
    IN IF numbers # {} THEN Max(numbers) + 1 ELSE 1

\* chapter_name.lower().replace(' ', '-')
FormattedName(name) == StrReplace(StrLower(name), " ", "-")

ChapterReadme(chapter_name, chapter_number) ==
    <<"# " \o chapter_name, "",
      "This is the content for Chapter " \o IntStr(chapter_number) \o ": "
          \o chapter_name \o ".", "",
      "## Overview", "",
      "Write your chapter overview here.">>

SectionText(section_name, chapter_name, chapter_number) ==
    <<"# " \o section_name, "",
      "This is a section in Chapter " \o IntStr(chapter_number) \o ": "
          \o chapter_name \o ".", "",
      "Write your section content here.">>

\* the section files written: f"{i:02d}-{formatted_section_name}.md" for the
\* i-th name of sections
SectionFiles(chapter_dir, sections, chapter_name, chapter_number) ==
    [p \in {Join(chapter_dir, Format02d(i) \o "-" \o FormattedName(sections[i]) \o ".md") :
               i \in 1..Len(sections)} |->
        SectionText(sections[CHOOSE i \in 1..Len(sections) :
                        p = Join(chapter_dir, Format02d(i) \o "-"
                                   \o FormattedName(sections[i]) \o ".md")],
                    chapter_name, chapter_number)]

MaxCalls == 3

\* given is <<n>> for --chapter-number n and <<>> (None) without one
create_chapter(book_root, chapter_name, given, sections) ==
    LET chapters_dir == Join(book_root, "chapters")
        chapter_number ==
            IF given = <<>> THEN NextChapterNumber(chapters_dir) ELSE given[1]
        formatted_number == Format02d(chapter_number)
        chapter_dir == Join(chapters_dir,
                            formatted_number \o "-" \o FormattedName(chapter_name))
        images_dir == Join(Join(book_root, "images"), "chapter-" \o formatted_number)
        readme_path == Join(chapter_dir, "README.md")
    IN /\ calls < MaxCalls
       /\ dirs' = dirs \cup {book_root, chapters_dir, chapter_dir,
                             Join(book_root, "images"), images_dir}
       /\ files' = SectionFiles(chapter_dir, sections, chapter_name, chapter_number)
                   @@ (readme_path :> ChapterReadme(chapter_name, chapter_number))
                   @@ files
       /\ last' = [op |-> "create_chapter", auto |-> (given = <<>>),
                   chapter_number |-> chapter_number, chapter_dir |-> chapter_dir,
                   before |-> files, dirs_before |-> dirs]
       /\ calls' = calls + 1
       /\ UNCHANGED <<denied, today>>

ChapterNames == {"Intro", "Set Up"}

GivenNumbers == {<<>>, <<-1>>, <<9>>}

SectionLists == {<<>>, <<"First Steps">>}

ChapterInit ==
    /\ dirs = {"/", "/w"}
    /\ files = <<>>
    /\ denied = {}
    /\ today = NoDate
    /\ calls = 0
    /\ last = NoCall

ChapterNext ==
    \E name \in ChapterNames, given \in GivenNumbers, sections \in SectionLists :
        create_chapter(BookRoot, name, given, sections)

SpecChapter == ChapterInit /\ [][ChapterNext]_vars

(***************************************************************************)
(* Reading a summary line back                                             *)
(***************************************************************************)

IsEntry(l) == StartsWith(l, "* [") \/ StartsWith(l, "  * [")

Depth(l) == IF StartsWith(l, "  * [") THEN 1 ELSE 0

IsLinked(l) == IsEntry(l) /\ EndsWith(l, ")") /\ FindFrom(l, "(", 1) > 0

\* the path between the last ( and the final )
LinkTarget(l) == SubSeq(l, RFindFrom(l, "(", Len(l)) + 1, Len(l) - 1)

\* the text between the first [ and the last ]
LineTitle(l) == SubSeq(l, FindFrom(l, "[", 1) + 1, RFindFrom(l, "]", Len(l)) - 1)

\* s.strip()
RECURSIVE LStrip(_)
LStrip(s) == IF s # "" /\ Head(s) = " " THEN LStrip(Tail(s)) ELSE s

RECURSIVE RStrip(_)
RStrip(s) ==
    IF s # "" /\ At(s, Len(s)) = " " THEN RStrip(SubSeq(s, 1, Len(s) - 1)) ELSE s

Strip(s) == LStrip(RStrip(s))

RanSummary == last.op = "generate_summary"

WroteSummary == RanSummary /\ last.outcome = "ok"

\* the chapter directory (relative to the book root) line i of c belongs to: a
\* linked line's own directory, an unlinked heading's from the line after it
ChapterOf(c, i) ==
    IF IsLinked(c[i]) THEN Parent(LinkTarget(c[i]))
    ELSE IF i < Len(c) /\ IsLinked(c[i + 1]) THEN Parent(LinkTarget(c[i + 1]))
    ELSE ""

(***************************************************************************)
(* The claims                                                              *)
(***************************************************************************)

\* C1: in a summary that was written, no line links to a path that matches one
\* of the run's exclusion patterns (root README.md, chapter README.md, section
\* and fallback entries alike).
C1_NoExcludedLink ==
    WroteSummary =>
        \A i \in 1..Len(last.content) :
            IsLinked(last.content[i]) =>
                ~is_excluded(Join(last.book_root, LinkTarget(last.content[i])),
                             last.exclude)

\* C2: a run that directly follows a run with the same arguments, nothing else
\* having changed the tree in between, ends as that run did and produces the
\* same document, line for line.
C2_Idempotent ==
    (RanSummary /\ last.prior.op = "generate_summary") =>
        /\ last.outcome = last.prior.outcome
        /\ last.content = last.prior.content

\* C3: when the book root does not exist or the output path cannot be written,
\* the run ends in an error and every file is what it was before the run (no
\* new output file, no changed one).
C3_FatalLeavesNoOutput ==
    (RanSummary /\ (last.book_root \notin dirs \/ WriteRaises(last.output_file))) =>
        /\ last.outcome = "error"
        /\ files = last.before

\* C4: for a readable file with a "# <text>" line, extract_title returns the
\* text of the first such line with leading and trailing whitespace removed
\* (stated for a first heading whose text is not blank).
C4_FirstHeadingTrimmed ==
    (last.op = "extract_title" /\ last.file_path \notin denied) =>
        LET content == files[last.file_path]
            hs == {i \in 1..Len(content) :
                      StartsWith(content[i], "# ") /\ Len(content[i]) >= 3}
            text == DropFirst(content[CHOOSE i \in hs : \A j \in hs : i <= j], 2)
        IN (hs # {} /\ Strip(text) # "") => last.result = Strip(text)

\* C5: for a file without a "# " heading, and for a file that cannot be read,
\* extract_title returns the file name without its extension, every hyphen
\* and every underscore replaced by a space, title-cased.
C5_DerivedTitle ==
    (/\ last.op = "extract_title"
     /\ \/ last.file_path \in denied
        \/ \A i \in 1..Len(files[last.file_path]) :
              ~(StartsWith(files[last.file_path][i], "# ")
                /\ Len(files[last.file_path][i]) >= 3)) =>
        last.result =
            StrTitle(StrReplace(StrReplace(Stem(Basename(last.file_path)), "-", " "),
                                "_", " "))

\* C6: in a summary written for a tree with a chapters/ directory, every
\* chapter directory that is not excluded and directly holds a non-excluded
\* markdown file has exactly one depth-0 line and exactly one depth-1 line for
\* each of its non-excluded markdown files other than README.md; a chapter
\* directory without a non-excluded markdown file has no line at all.
C6_ChapterEntries ==
    (WroteSummary /\ Join(last.book_root, "chapters") \in dirs) =>
        LET c == last.content
            root == last.book_root
        IN \A d \in {x \in dirs : Parent(x) = Join(root, "chapters")} :
              ~is_excluded(d, last.exclude) =>
                 LET md == {f \in DOMAIN last.before :
                               /\ Parent(f) = d
                               /\ EndsWith(f, ".md")
                               /\ ~is_excluded(f, last.exclude)}
                     own == {i \in 3..Len(c) :
                                IsEntry(c[i]) /\ Join(root, ChapterOf(c, i)) = d}
                     zero == {i \in own : Depth(c[i]) = 0}
                 IN IF md # {}
                    THEN /\ Cardinality(zero) = 1
                         /\ \A f \in md :
                               Basename(f) # "README.md" =>
                                  Cardinality({i \in own :
                                      /\ Depth(c[i]) = 1
                                      /\ IsLinked(c[i])
                                      /\ Join(root, LinkTarget(c[i])) = f}) = 1
                    ELSE own = {}

C8_NeverAborts ==
    (RanSummary /\ last.book_root \in dirs /\ ~WriteRaises(last.output_file)) =>
        /\ last.outcome = "ok"
        /\ \A i \in 1..Len(last.content) :
              (/\ IsLinked(last.content[i])
               /\ Join(last.book_root, LinkTarget(last.content[i])) \in denied) =>
                  LineTitle(last.content[i]) =
                      DerivedTitle(Join(last.book_root, LinkTarget(last.content[i])))

\* C9: a call of organize_pdf with add_version=True writes to a path that did
\* not exist before the call.
C9_NeverOverwrites ==
    (last.op = "organize_pdf" /\ last.add_version) => ~last.existed

\* the value of the decimal digits a name starts with
RECURSIVE LeadingDigits(_)
LeadingDigits(s) ==
    IF s # "" /\ IsDigit(Head(s)) THEN Head(s) \o LeadingDigits(Tail(s)) ELSE ""

ChaptersBefore == {d \in last.dirs_before : Parent(d) = Join(BookRoot, "chapters")}

\* C10: a call of create_chapter without a chapter number picks a number
\* greater than the numeric prefix of every existing chapter directory (1
\* when none has one), creates a directory that did not exist, and leaves every
\* existing directory and file as it was.
C10_AutoNumberFresh ==
    (last.op = "create_chapter" /\ last.auto) =>
        /\ \A d \in ChaptersBefore :
              LeadingDigits(Basename(d)) # "" =>
                 last.chapter_number > DigitsValue(LeadingDigits(Basename(d)))
        /\ (\A d \in ChaptersBefore : LeadingDigits(Basename(d)) = "") =>
              last.chapter_number = 1
        /\ last.chapter_dir \notin last.dirs_before
        /\ last.dirs_before \subseteq dirs
        /\ \A p \in DOMAIN last.before :
              p \in DOMAIN files /\ files[p] = last.before[p]

\* a call without a number after chapters 01 and 09 exist: it picks 10
C10_Witness ==
    /\ last.op = "create_chapter" /\ last.auto
    /\ last.chapter_number = 10
    /\ \E d \in ChaptersBefore : DigitsValue(LeadingDigits(Basename(d))) = 1
    /\ last.before # <<>>

====
